---- MODULE Spec2Model ----
(***************************************************************************)
(* Verification state engine of the fixed-asset API: verification cycles   *)
(* (DRAFT / ACTIVE / LOCKED), append-only asset verifications, overrides   *)
(* and field onboarding of new assets.                                     *)
(*                                                                         *)
(* Every request handler runs on its own database session against         *)
(* PostgreSQL at READ COMMITTED: each SELECT reads the rows committed at   *)
(* that moment, pending INSERT/UPDATE statements become visible at the     *)
(* handler's commit.  A handler is therefore modelled as one action per    *)
(* database round trip; Spec interleaves the handlers of several           *)
(* requests, SeqSpec runs one request at a time.                           *)
(***************************************************************************)
EXTENDS Integers, Sequences, FiniteSets, TLC

VARIABLES cycles, assets, verifs, clock, pc, call, loc, res

vars == <<cycles, assets, verifs, clock, pc, call, loc, res>>

\* ------------------------------------------------------------------ bounds
\* transactions that get past their first statement in one behaviour: of the
\* sequential client, and of the concurrent clients together
MaxClock == 4
MaxRaceClock == 3
MaxLifecycleClock == 4
MaxApiClock == 3

\* ------------------------------------------------------------ input domains
SeqProcs == {0}
Procs == {1, 2}
LifecycleProcs == {3, 4}
ApiProcs == {5, 6, 7, 8}
AllProcs == SeqProcs \cup Procs \cup LifecycleProcs \cup ApiProcs
Tags == {"Q1", "Q2"}
CycleIds == {1, 2}
AssetIds == {1, 2}
VerifIds == {1, 2}
SeedCodes == <<"AST001">>
AssetCodes == {"AST001", "AST900"}
InitialStatuses == {"DRAFT", "ACTIVE", "LOCKED"}
VerificationSources == {"SELF"}
OverrideSources == {"OVERRIDDEN", "SELF"}
VerificationStatuses == {"VERIFIED"}
OverrideStatuses == {"DISCREPANCY"}
\* override_reason is a required str of any length, the empty one included
OverrideReasons == {"repaired", ""}
\* the request bodies of the override endpoint: the documented one (source
\* OVERRIDDEN with a reason) and those that depart from it in one field
OverridePayloads ==
  {pl \in [source : OverrideSources, override_reason : OverrideReasons] :
     pl.source = "OVERRIDDEN" \/ pl.override_reason # ""}
OnboardingSource == "AUDITOR"
OnboardingStatus == "NEW_ASSET"

\* NULL of a nullable column, None of an optional result
Null == 0

\* NULL of a nullable text column
NullText == "<NULL>"

\* the authenticated user a request of p comes from
UserName(p) ==
  CASE p = 5 -> "admin"
    [] p = 6 -> "auditor"
    [] p = 7 -> "owner"
    [] p = 8 -> "viewer"
    [] OTHER -> NullText

\* the performed_by a call of p carries: the endpoints pass on the optional
\* field of the request body, which the client fills as it likes; the
\* functions called without it get the default None
PerformedBy(p) ==
  IF p \in ApiProcs THEN {UserName(p), "someone.else"} ELSE {NullText}

\* scalar_one_or_none() on a result of two or more rows raises
MultipleResultsFound == -1

\* ------------------------------------------------------------------- rows
Cycle(tag, status, created_at) ==
  [tag |-> tag, status |-> status, created_at |-> created_at, locked_at |-> Null]

Asset(asset_code) ==
  [asset_code |-> asset_code, is_active |-> TRUE]

AssetVerification(asset_id, cycle_id, performed_by, source, status, override_of, reason, t) ==
  [asset_id |-> asset_id, cycle_id |-> cycle_id, performed_by |-> performed_by,
   source |-> source,
   status |-> status, override_of_verification_id |-> override_of,
   override_reason |-> reason, created_at |-> t]

\* ----------------------------------------------------------------- queries
\* ids of the rows selected by a WHERE clause
\* mutant: the tag is compared with the status column
CyclesByTag_StatusColumn(cy, tag) == {i \in DOMAIN cy : cy[i].status = tag}

CyclesByTag(cy, tag) == {i \in DOMAIN cy : cy[i].tag = tag}

\* mutant: the query looks among the deactivated assets only
AssetsByCode_InactiveOnly(as, code) ==
  {i \in DOMAIN as : as[i].asset_code = code /\ ~as[i].is_active}

AssetsByCode(as, code) == {i \in DOMAIN as : as[i].asset_code = code}

VerificationsFor(vs, asset_id, cycle_id) ==
  {i \in DOMAIN vs : vs[i].asset_id = asset_id /\ vs[i].cycle_id = cycle_id}

\* get_cycle_or_raise / get_cycle_by_id / ensure_cycle_exists
GetCycleOrRaise(cy, cycle_id) ==
  IF cycle_id \in DOMAIN cy THEN "ok" ELSE "CycleNotFound"

\* mutant: the lock check only looks the cycle up, as ensure_cycle_exists does
CheckCycleNotLocked_ExistenceOnly(cy, cycle_id) ==
  GetCycleOrRaise(cy, cycle_id)

\* check_cycle_not_locked
CheckCycleNotLocked(cy, cycle_id) ==
  IF GetCycleOrRaise(cy, cycle_id) # "ok" THEN "CycleNotFound"
  ELSE IF cy[cycle_id].status = "LOCKED" THEN "CycleLocked"
  ELSE "ok"

\* mutant: every asset id is taken to exist
GetAssetOrRaise_AnyId(as, asset_id) == "ok"

\* get_asset_or_raise
GetAssetOrRaise(as, asset_id) ==
  IF asset_id \in DOMAIN as THEN "ok" ELSE "AssetNotFound"

\* get_verification_or_raise
GetVerificationOrRaise(vs, verification_id) ==
  IF verification_id \in DOMAIN vs THEN "ok" ELSE "VerificationNotFound"

\* ------------------------------------------------------- request bookkeeping
NoCall ==
  [op |-> "none", tag |-> "", status |-> "", cycle_id |-> 0, asset_id |-> 0,
   verification_id |-> 0, allow_duplicate |-> FALSE, source |-> "",
   asset_code |-> "", override_reason |-> "", performed_by |-> NullText]

NoLoc == [now |-> 0, asset_id |-> 0, cycle_id |-> 0, flushed |-> FALSE, in_txn |-> FALSE]

NoRes == [kind |-> "none", id |-> 0]

\* a request refused by its first statement is answered before any other
\* handler takes a step (the answer does not touch the store)
Ready == \A q \in AllProcs : pc[q] = "done" => loc[q].in_txn

Budget(p) ==
  IF p \in SeqProcs THEN MaxClock
  ELSE IF p \in LifecycleProcs THEN MaxLifecycleClock
  ELSE IF p \in ApiProcs THEN MaxApiClock
  ELSE MaxRaceClock

\* a request reaches the handler of p
Begin(p, c) ==
  /\ pc[p] = "idle"
  /\ Ready
  /\ call' = [call EXCEPT ![p] = c]

\* the handler of p goes on to its next statement
Goto(p, label, l) ==
  /\ pc' = [pc EXCEPT ![p] = label]
  /\ loc' = [loc EXCEPT ![p] = l]
  /\ res' = [res EXCEPT ![p] = [kind |-> "pending", id |-> 0]]

\* the first statement of p succeeded: its transaction is open, and its now()
\* will stamp the rows it inserts
Open(p, label, l) ==
  /\ clock < Budget(p)
  /\ clock' = clock + 1
  /\ Goto(p, label, [l EXCEPT !.now = clock + 1, !.in_txn = TRUE])

\* the handler of p returns or raises
Return(p, kind, id) ==
  /\ pc' = [pc EXCEPT ![p] = "done"]
  /\ loc' = [loc EXCEPT ![p] = [NoLoc EXCEPT !.in_txn = loc[p].in_txn]]
  /\ res' = [res EXCEPT ![p] = [kind |-> kind, id |-> id]]

\* the response is sent and the session closed
Respond(p) ==
  /\ pc[p] = "done"
  /\ pc' = [pc EXCEPT ![p] = "idle"]
  /\ call' = [call EXCEPT ![p] = NoCall]
  /\ res' = [res EXCEPT ![p] = NoRes]
  /\ loc' = [loc EXCEPT ![p] = NoLoc]
  /\ UNCHANGED <<cycles, assets, verifs, clock>>

Init ==
  /\ cycles = <<>>
  /\ assets = [i \in DOMAIN SeedCodes |-> Asset(SeedCodes[i])]
  /\ verifs = <<>>
  /\ clock = 0
  /\ pc = [p \in AllProcs |-> "idle"]
  /\ call = [p \in AllProcs |-> NoCall]
  /\ loc = [p \in AllProcs |-> NoLoc]
  /\ res = [p \in AllProcs |-> NoRes]

\* ------------------------------------------------------------ create_cycle
\* mutant: the initial status is not validated
ValidInitialStatus_AnyStatus(status) == TRUE

ValidInitialStatus(status) == status \in {"DRAFT", "ACTIVE"}

CreateCycleBegin(p) ==
  \E tag \in Tags, status \in InitialStatuses :
    /\ Begin(p, [NoCall EXCEPT !.op = "create_cycle", !.tag = tag, !.status = status])
    /\ IF ~ValidInitialStatus(status) THEN Return(p, "ValueError", 0) /\ UNCHANGED clock
       ELSE IF CyclesByTag(cycles, tag) # {}
         THEN Return(p, "DuplicateTagError", 0) /\ UNCHANGED clock
       ELSE Open(p, "cc_commit", NoLoc)
    /\ UNCHANGED <<cycles, assets, verifs>>

\* mutant: the insert of an ACTIVE cycle locks the cycles that were ACTIVE
CreateCycleCommit_DeactivatesOthers(p) ==
  /\ pc[p] = "cc_commit"
  /\ Ready
  /\ IF CyclesByTag(cycles, call[p].tag) # {}
       THEN /\ Return(p, "IntegrityError", 0)
            /\ UNCHANGED cycles
       ELSE /\ cycles' = Append([c \in DOMAIN cycles |->
                                  IF call[p].status = "ACTIVE" /\ cycles[c].status = "ACTIVE"
                                    THEN [cycles[c] EXCEPT !.status = "LOCKED",
                                                           !.locked_at = loc[p].now]
                                    ELSE cycles[c]],
                                Cycle(call[p].tag, call[p].status, loc[p].now))
            /\ Return(p, "ok", Len(cycles) + 1)
  /\ UNCHANGED <<assets, verifs, clock, call>>

\* INSERT + commit; the unique index on tag is checked by the store
CreateCycleCommit(p) ==
  /\ pc[p] = "cc_commit"
  /\ Ready
  /\ IF CyclesByTag(cycles, call[p].tag) # {}
       THEN /\ Return(p, "IntegrityError", 0)
            /\ UNCHANGED cycles
       ELSE /\ cycles' = Append(cycles, Cycle(call[p].tag, call[p].status, loc[p].now))
            /\ Return(p, "ok", Len(cycles) + 1)
  /\ UNCHANGED <<assets, verifs, clock, call>>

\* ------------------------------------------- activate / lock / unlock cycle
\* mutant: lock_cycle tests for DRAFT
RequiredStatus_LockFromDraft(op) ==
  CASE op = "activate_cycle" -> "DRAFT"
    [] op = "lock_cycle" -> "DRAFT"
    [] op = "unlock_cycle" -> "LOCKED"

\* the status each transition requires, and the columns it assigns
RequiredStatus(op) ==
  CASE op = "activate_cycle" -> "DRAFT"
    [] op = "lock_cycle" -> "ACTIVE"
    [] op = "unlock_cycle" -> "LOCKED"

\* mutant: unlock_cycle leaves locked_at as it is
ApplyTransition_KeepsLockedAt(op, cycle, t) ==
  CASE op = "activate_cycle" -> [cycle EXCEPT !.status = "ACTIVE"]
    [] op = "lock_cycle" -> [cycle EXCEPT !.status = "LOCKED", !.locked_at = t]
    [] op = "unlock_cycle" -> [cycle EXCEPT !.status = "ACTIVE"]

ApplyTransition(op, cycle, t) ==
  CASE op = "activate_cycle" -> [cycle EXCEPT !.status = "ACTIVE"]
    [] op = "lock_cycle" -> [cycle EXCEPT !.status = "LOCKED", !.locked_at = t]
    [] op = "unlock_cycle" -> [cycle EXCEPT !.status = "ACTIVE", !.locked_at = Null]

ActivateCycleBegin(p) ==
  \E cycle_id \in CycleIds :
    /\ Begin(p, [NoCall EXCEPT !.op = "activate_cycle", !.cycle_id = cycle_id])
    /\ IF GetCycleOrRaise(cycles, cycle_id) # "ok"
         THEN Return(p, "CycleNotFound", 0) /\ UNCHANGED clock
       ELSE IF cycles[cycle_id].status # RequiredStatus("activate_cycle")
         THEN Return(p, "CycleStatusError", 0) /\ UNCHANGED clock
       ELSE Open(p, "ac_commit", [NoLoc EXCEPT !.cycle_id = cycle_id])
    /\ UNCHANGED <<cycles, assets, verifs>>

\* UPDATE ... WHERE id = :id of the assigned columns, then commit
ActivateCycleCommit(p) ==
  /\ pc[p] = "ac_commit"
  /\ Ready
  /\ cycles' = [cycles EXCEPT ![loc[p].cycle_id] =
                  ApplyTransition("activate_cycle", cycles[loc[p].cycle_id], clock)]
  /\ Return(p, "ok", loc[p].cycle_id)
  /\ UNCHANGED <<assets, verifs, clock, call>>

LockCycleBegin(p) ==
  \E cycle_id \in CycleIds :
    /\ Begin(p, [NoCall EXCEPT !.op = "lock_cycle", !.cycle_id = cycle_id])
    /\ IF GetCycleOrRaise(cycles, cycle_id) # "ok"
         THEN Return(p, "CycleNotFound", 0) /\ UNCHANGED clock
       ELSE IF cycles[cycle_id].status # RequiredStatus("lock_cycle")
         THEN Return(p, "CycleStatusError", 0) /\ UNCHANGED clock
       ELSE Open(p, "lk_commit", [NoLoc EXCEPT !.cycle_id = cycle_id])
    /\ UNCHANGED <<cycles, assets, verifs>>

\* UPDATE ... WHERE id = :id of the assigned columns, then commit
LockCycleCommit(p) ==
  /\ pc[p] = "lk_commit"
  /\ Ready
  /\ cycles' = [cycles EXCEPT ![loc[p].cycle_id] =
                  ApplyTransition("lock_cycle", cycles[loc[p].cycle_id], clock)]
  /\ Return(p, "ok", loc[p].cycle_id)
  /\ UNCHANGED <<assets, verifs, clock, call>>

UnlockCycleBegin(p) ==
  \E cycle_id \in CycleIds :
    /\ Begin(p, [NoCall EXCEPT !.op = "unlock_cycle", !.cycle_id = cycle_id])
    /\ IF GetCycleOrRaise(cycles, cycle_id) # "ok"
         THEN Return(p, "CycleNotFound", 0) /\ UNCHANGED clock
       ELSE IF cycles[cycle_id].status # RequiredStatus("unlock_cycle")
         THEN Return(p, "CycleStatusError", 0) /\ UNCHANGED clock
       ELSE Open(p, "ul_commit", [NoLoc EXCEPT !.cycle_id = cycle_id])
    /\ UNCHANGED <<cycles, assets, verifs>>

\* UPDATE ... WHERE id = :id of the assigned columns, then commit
UnlockCycleCommit(p) ==
  /\ pc[p] = "ul_commit"
  /\ Ready
  /\ cycles' = [cycles EXCEPT ![loc[p].cycle_id] =
                  ApplyTransition("unlock_cycle", cycles[loc[p].cycle_id], clock)]
  /\ Return(p, "ok", loc[p].cycle_id)
  /\ UNCHANGED <<assets, verifs, clock, call>>

\* ------------------------------------------------------ create_verification
\* mutant: the WHERE clause compares the two ids the wrong way round
FindExistingVerification_SwappedKeys(vs, asset_id, cycle_id) ==
  LET found == VerificationsFor(vs, cycle_id, asset_id) IN
    IF found = {} THEN Null
    ELSE IF Cardinality(found) = 1 THEN CHOOSE i \in found : TRUE
    ELSE MultipleResultsFound

\* find_existing_verification: the statement has no LIMIT
FindExistingVerification(vs, asset_id, cycle_id) ==
  LET found == VerificationsFor(vs, asset_id, cycle_id) IN
    IF found = {} THEN Null
    ELSE IF Cardinality(found) = 1 THEN CHOOSE i \in found : TRUE
    ELSE MultipleResultsFound

\* db.add(row); db.commit()
InsertVerification(vs, row) == Append(vs, row)

CreateVerificationBegin(p) ==
  \E asset_id \in AssetIds, cycle_id \in CycleIds, allow_duplicate \in BOOLEAN,
     source \in VerificationSources, status \in VerificationStatuses,
     performed_by \in PerformedBy(p) :
    /\ Begin(p, [NoCall EXCEPT !.op = "create_verification", !.asset_id = asset_id,
                               !.cycle_id = cycle_id, !.allow_duplicate = allow_duplicate,
                               !.source = source, !.status = status,
                               !.performed_by = performed_by])
    /\ IF CheckCycleNotLocked(cycles, cycle_id) # "ok"
         THEN Return(p, CheckCycleNotLocked(cycles, cycle_id), 0) /\ UNCHANGED clock
         ELSE Open(p, "cv_asset", NoLoc)
    /\ UNCHANGED <<cycles, assets, verifs>>

CreateVerificationAsset(p) ==
  /\ pc[p] = "cv_asset"
  /\ Ready
  /\ IF GetAssetOrRaise(assets, call[p].asset_id) # "ok"
       THEN Return(p, "AssetNotFound", 0)
       ELSE Goto(p, "cv_find", loc[p])
  /\ UNCHANGED <<cycles, assets, verifs, clock, call>>

\* mutant: the duplicate test reads the flag the wrong way round
CreateVerificationFind_InvertedFlag(p) ==
  /\ pc[p] = "cv_find"
  /\ Ready
  /\ LET existing == FindExistingVerification(verifs, call[p].asset_id, call[p].cycle_id) IN
       IF existing = MultipleResultsFound THEN Return(p, "MultipleResultsFound", 0)
       ELSE IF existing # Null /\ call[p].allow_duplicate
         THEN Return(p, "duplicate", existing)
       ELSE Goto(p, "cv_insert", loc[p])
  /\ UNCHANGED <<cycles, assets, verifs, clock, call>>

CreateVerificationFind(p) ==
  /\ pc[p] = "cv_find"
  /\ Ready
  /\ LET existing == FindExistingVerification(verifs, call[p].asset_id, call[p].cycle_id) IN
       IF existing = MultipleResultsFound THEN Return(p, "MultipleResultsFound", 0)
       ELSE IF existing # Null /\ ~call[p].allow_duplicate
         THEN Return(p, "duplicate", existing)
       ELSE Goto(p, "cv_insert", loc[p])
  /\ UNCHANGED <<cycles, assets, verifs, clock, call>>

CreateVerificationInsert(p) ==
  /\ pc[p] = "cv_insert"
  /\ Ready
  /\ verifs' = InsertVerification(verifs,
                  AssetVerification(call[p].asset_id, call[p].cycle_id, call[p].performed_by,
                                    call[p].source,
                                    call[p].status, Null, NullText, loc[p].now))
  /\ Return(p, "created", Len(verifs) + 1)
  /\ UNCHANGED <<cycles, assets, clock, call>>

\* create_verification run alone, from its first statement to its return
CreateVerificationOutcome(cy, as, vs, asset_id, cycle_id, allow_duplicate) ==
  IF CheckCycleNotLocked(cy, cycle_id) # "ok" THEN CheckCycleNotLocked(cy, cycle_id)
  ELSE IF GetAssetOrRaise(as, asset_id) # "ok" THEN "AssetNotFound"
  ELSE LET existing == FindExistingVerification(vs, asset_id, cycle_id) IN
    IF existing = MultipleResultsFound THEN "MultipleResultsFound"
    ELSE IF existing # Null /\ ~allow_duplicate THEN "duplicate"
    ELSE "created"

\* ---------------------------------------------------------- create_override
\* mutant: the override also marks the row it corrects
InsertOverride_MarksOriginal(vs, verification_id, row) ==
  Append([vs EXCEPT ![verification_id].source = "OVERRIDDEN"], row)

\* mutant: the override is filed under the newest cycle
InsertOverride_IntoNewestCycle(vs, verification_id, row) ==
  Append(vs, [row EXCEPT !.cycle_id = Len(cycles)])

\* db.add(override); db.commit(): the original row is not touched
InsertOverride(vs, verification_id, row) == Append(vs, row)

CreateOverrideBegin(p) ==
  \E verification_id \in VerifIds, payload \in OverridePayloads,
     status \in OverrideStatuses, performed_by \in PerformedBy(p) :
    /\ Begin(p, [NoCall EXCEPT !.op = "create_override", !.verification_id = verification_id,
                               !.source = payload.source, !.status = status,
                               !.override_reason = payload.override_reason,
                               !.performed_by = performed_by])
    /\ IF GetVerificationOrRaise(verifs, verification_id) # "ok"
         THEN Return(p, "VerificationNotFound", 0) /\ UNCHANGED clock
         ELSE Open(p, "co_check", [NoLoc EXCEPT
                                     !.asset_id = verifs[verification_id].asset_id,
                                     !.cycle_id = verifs[verification_id].cycle_id])
    /\ UNCHANGED <<cycles, assets, verifs>>

\* mutant: the override does not look at the lock
CreateOverrideCheck_NoLockCheck(p) ==
  /\ pc[p] = "co_check"
  /\ Ready
  /\ Goto(p, "co_insert", loc[p])
  /\ UNCHANGED <<cycles, assets, verifs, clock, call>>

CreateOverrideCheck(p) ==
  /\ pc[p] = "co_check"
  /\ Ready
  /\ IF CheckCycleNotLocked(cycles, loc[p].cycle_id) # "ok"
       THEN Return(p, CheckCycleNotLocked(cycles, loc[p].cycle_id), 0)
       ELSE Goto(p, "co_insert", loc[p])
  /\ UNCHANGED <<cycles, assets, verifs, clock, call>>

CreateOverrideInsert(p) ==
  /\ pc[p] = "co_insert"
  /\ Ready
  /\ verifs' = InsertOverride(verifs, call[p].verification_id,
                  AssetVerification(loc[p].asset_id, loc[p].cycle_id, call[p].performed_by,
                                    call[p].source,
                                    call[p].status, call[p].verification_id,
                                    call[p].override_reason, loc[p].now))
  /\ Return(p, "created", Len(verifs) + 1)
  /\ UNCHANGED <<cycles, assets, clock, call>>

\* ------------------------------------ create_asset_and_initial_verification
OnboardBegin(p) ==
  \E asset_code \in AssetCodes, cycle_id \in CycleIds, performed_by \in PerformedBy(p) :
    /\ Begin(p, [NoCall EXCEPT !.op = "create_asset_and_initial_verification",
                               !.asset_code = asset_code, !.cycle_id = cycle_id,
                               !.source = OnboardingSource, !.status = OnboardingStatus,
                               !.performed_by = performed_by])
    /\ IF GetCycleOrRaise(cycles, cycle_id) # "ok"
         THEN Return(p, "CycleNotFound", 0) /\ UNCHANGED clock
         ELSE Open(p, "ob_precheck", NoLoc)
    /\ UNCHANGED <<cycles, assets, verifs>>

OnboardPrecheck(p) ==
  /\ pc[p] = "ob_precheck"
  /\ Ready
  /\ IF AssetsByCode(assets, call[p].asset_code) # {}
       THEN Return(p, "AssetAlreadyExists", 0)
       ELSE Goto(p, "ob_flush", loc[p])
  /\ UNCHANGED <<cycles, assets, verifs, clock, call>>

\* mutant: assets.asset_code carries no unique index
OnboardFlush_NoUniqueIndex(p) ==
  /\ pc[p] = "ob_flush"
  /\ Ready
  /\ Goto(p, "ob_commit", [loc[p] EXCEPT !.flushed = TRUE])
  /\ UNCHANGED <<cycles, assets, verifs, clock, call>>

\* db.flush(): the INSERT of the asset waits while another transaction holds
\* an uncommitted row of the same asset_code, and fails on a committed one
OnboardFlush(p) ==
  /\ pc[p] = "ob_flush"
  /\ Ready
  /\ \A q \in AllProcs \ {p} :
       ~(loc[q].flushed /\ call[q].asset_code = call[p].asset_code)
  /\ IF AssetsByCode(assets, call[p].asset_code) # {}
       THEN Return(p, "AssetAlreadyExists", 0)
       ELSE Goto(p, "ob_commit", [loc[p] EXCEPT !.flushed = TRUE])
  /\ UNCHANGED <<cycles, assets, verifs, clock, call>>

\* mutant: the asset is committed alone, its verification is not written
OnboardCommit_AssetOnly(p) ==
  /\ pc[p] = "ob_commit"
  /\ Ready
  /\ assets' = Append(assets, Asset(call[p].asset_code))
  /\ Return(p, "created", Null)
  /\ UNCHANGED <<cycles, verifs, clock, call>>

\* db.commit(): the asset and its first verification become visible together
OnboardCommit(p) ==
  /\ pc[p] = "ob_commit"
  /\ Ready
  /\ assets' = Append(assets, Asset(call[p].asset_code))
  /\ verifs' = InsertVerification(verifs,
                  AssetVerification(Len(assets) + 1, call[p].cycle_id, call[p].performed_by,
                                    call[p].source,
                                    call[p].status, Null, NullText, loc[p].now))
  /\ Return(p, "created", Len(verifs) + 1)
  /\ UNCHANGED <<cycles, clock, call>>

\* ------------------------------------------------- create_new_asset_endpoint
\* the body of the endpoint: check_cycle_not_locked, then
\* create_asset_and_initial_verification in the same session (its
\* ensure_cycle_exists finds the cycle the lock check has just read: no
\* operation deletes a cycle)
CreateNewAssetBegin(p) ==
  \E asset_code \in AssetCodes, cycle_id \in CycleIds, performed_by \in PerformedBy(p) :
    /\ Begin(p, [NoCall EXCEPT !.op = "create_new_asset_endpoint",
                               !.asset_code = asset_code, !.cycle_id = cycle_id,
                               !.source = OnboardingSource, !.status = OnboardingStatus,
                               !.performed_by = performed_by])
    /\ IF CheckCycleNotLocked(cycles, cycle_id) # "ok"
         THEN Return(p, CheckCycleNotLocked(cycles, cycle_id), 0) /\ UNCHANGED clock
         ELSE Open(p, "ob_precheck", NoLoc)
    /\ UNCHANGED <<cycles, assets, verifs>>

\* ------------------------------------------------------------- HTTP layer
HTTP_200_OK == 200
HTTP_201_CREATED == 201
HTTP_400_BAD_REQUEST == 400
HTTP_403_FORBIDDEN == 403
HTTP_404_NOT_FOUND == 404
HTTP_409_CONFLICT == 409
HTTP_500_INTERNAL_SERVER_ERROR == 500

\* the status code the endpoint of operation op answers with when its handler
\* returns or raises kind
StatusCode(op, kind) ==
  CASE kind = "AuthorizationError" -> HTTP_403_FORBIDDEN
    [] kind = "created" -> HTTP_201_CREATED
    [] kind = "duplicate" -> HTTP_200_OK
    [] kind = "ok" -> IF op = "create_cycle" THEN HTTP_201_CREATED ELSE HTTP_200_OK
    [] kind = "ValueError" -> HTTP_400_BAD_REQUEST
    [] kind = "CycleNotFound" ->
         IF op = "create_new_asset_endpoint" THEN HTTP_400_BAD_REQUEST
         ELSE HTTP_404_NOT_FOUND
    [] kind \in {"AssetNotFound", "VerificationNotFound"} -> HTTP_404_NOT_FOUND
    [] kind \in {"CycleLocked", "CycleStatusError", "DuplicateTagError",
                 "AssetAlreadyExists"} -> HTTP_409_CONFLICT
    [] OTHER -> HTTP_500_INTERNAL_SERVER_ERROR

\* the authenticated, active users the requests come from, one of each role
UserRole == {"ADMIN", "AUDITOR", "OWNER", "VIEWER"}

RoleOf(p) ==
  CASE p = 5 -> "ADMIN"
    [] p = 6 -> "AUDITOR"
    [] p = 7 -> "OWNER"
    [] p = 8 -> "VIEWER"

\* require_admin
RequireAdmin(role) == role = "ADMIN"

\* mutant: the dependency of the verification endpoint is used
RequireAuditorOrAdmin_CanVerify(role) == role \in {"ADMIN", "AUDITOR", "OWNER"}

\* require_auditor_or_admin
RequireAuditorOrAdmin(role) == role \in {"ADMIN", "AUDITOR"}

\* require_can_verify
RequireCanVerify(role) == role \in {"ADMIN", "AUDITOR", "OWNER"}

\* the dependency raises AuthorizationError: the endpoint body does not run
Forbidden(p, c) ==
  /\ Begin(p, c)
  /\ Return(p, "AuthorizationError", 0)
  /\ UNCHANGED <<cycles, assets, verifs, clock>>

\* the API client waits for an answer before it sends the next request
OneAtATime(p) == \A q \in ApiProcs \ {p} : pc[q] = "idle"

\* mutant: the request body carries the initial status
CreateCycleEndpoint_StatusFromBody(p) ==
  /\ OneAtATime(p)
  /\ IF RequireAdmin(RoleOf(p))
       THEN CreateCycleBegin(p)
       ELSE \E tag \in Tags :
              Forbidden(p, [NoCall EXCEPT !.op = "create_cycle", !.tag = tag,
                                          !.status = "ACTIVE"])

\* POST /cycles: create_cycle(db, tag=payload.tag), status left at its default
CreateCycleEndpoint(p) ==
  /\ OneAtATime(p)
  /\ IF RequireAdmin(RoleOf(p))
       THEN CreateCycleBegin(p) /\ call'[p].status = "ACTIVE"
       ELSE \E tag \in Tags :
              Forbidden(p, [NoCall EXCEPT !.op = "create_cycle", !.tag = tag,
                                          !.status = "ACTIVE"])

ActivateCycleEndpoint(p) ==
  /\ OneAtATime(p)
  /\ IF RequireAdmin(RoleOf(p))
       THEN ActivateCycleBegin(p)
       ELSE \E cycle_id \in CycleIds :
              Forbidden(p, [NoCall EXCEPT !.op = "activate_cycle", !.cycle_id = cycle_id])

LockCycleEndpoint(p) ==
  /\ OneAtATime(p)
  /\ IF RequireAdmin(RoleOf(p))
       THEN LockCycleBegin(p)
       ELSE \E cycle_id \in CycleIds :
              Forbidden(p, [NoCall EXCEPT !.op = "lock_cycle", !.cycle_id = cycle_id])

UnlockCycleEndpoint(p) ==
  /\ OneAtATime(p)
  /\ IF RequireAdmin(RoleOf(p))
       THEN UnlockCycleBegin(p)
       ELSE \E cycle_id \in CycleIds :
              Forbidden(p, [NoCall EXCEPT !.op = "unlock_cycle", !.cycle_id = cycle_id])

CreateVerificationEndpoint(p) ==
  /\ OneAtATime(p)
  /\ IF RequireCanVerify(RoleOf(p))
       THEN CreateVerificationBegin(p)
       ELSE \E asset_id \in AssetIds, cycle_id \in CycleIds :
              Forbidden(p, [NoCall EXCEPT !.op = "create_verification",
                                          !.asset_id = asset_id, !.cycle_id = cycle_id])

OverrideVerificationEndpoint(p) ==
  /\ OneAtATime(p)
  /\ IF RequireAuditorOrAdmin(RoleOf(p))
       THEN CreateOverrideBegin(p)
       ELSE \E verification_id \in VerifIds :
              Forbidden(p, [NoCall EXCEPT !.op = "create_override",
                                          !.verification_id = verification_id])

CreateNewAssetEndpoint(p) ==
  /\ OneAtATime(p)
  /\ IF RequireAuditorOrAdmin(RoleOf(p))
       THEN CreateNewAssetBegin(p)
       ELSE \E asset_code \in AssetCodes, cycle_id \in CycleIds :
              Forbidden(p, [NoCall EXCEPT !.op = "create_new_asset_endpoint",
                                          !.asset_code = asset_code,
                                          !.cycle_id = cycle_id])

\* ------------------------------------------------------------------- reads
\* ORDER BY created_at DESC over the rows `ids` of vs
RECURSIVE NewestFirst(_, _)
NewestFirst(vs, ids) ==
  IF ids = {} THEN <<>>
  ELSE LET i == CHOOSE i \in ids : \A j \in ids : vs[j].created_at <= vs[i].created_at
       IN <<i>> \o NewestFirst(vs, ids \ {i})

\* mutant: the newest row is effective whatever its source
EffectiveVerification_NewestOverall(vs, history) ==
  IF history = <<>> THEN Null ELSE history[1]

\* the first row of the history with source OVERRIDDEN, else history[0]
EffectiveVerification(vs, history) ==
  IF history = <<>> THEN Null
  ELSE LET overridden == {k \in DOMAIN history : vs[history[k]].source = "OVERRIDDEN"}
       IN IF overridden # {}
            THEN history[CHOOSE k \in overridden : \A l \in overridden : k <= l]
            ELSE history[1]

\* mutant: the history of the asset in every cycle
GetAssetCycleDetail_AnyCycle(cy, as, vs, asset_id, cycle_id) ==
  IF GetAssetOrRaise(as, asset_id) # "ok"
    THEN [kind |-> "AssetNotFound", id |-> Null, history |-> <<>>]
  ELSE IF GetCycleOrRaise(cy, cycle_id) # "ok"
    THEN [kind |-> "CycleNotFound", id |-> Null, history |-> <<>>]
  ELSE LET history == NewestFirst(vs, {i \in DOMAIN vs : vs[i].asset_id = asset_id})
       IN [kind |-> "ok", id |-> EffectiveVerification(vs, history), history |-> history]

\* get_asset_cycle_detail: (effective, history) as row ids
GetAssetCycleDetail(cy, as, vs, asset_id, cycle_id) ==
  IF GetAssetOrRaise(as, asset_id) # "ok"
    THEN [kind |-> "AssetNotFound", id |-> Null, history |-> <<>>]
  ELSE IF GetCycleOrRaise(cy, cycle_id) # "ok"
    THEN [kind |-> "CycleNotFound", id |-> Null, history |-> <<>>]
  ELSE LET history == NewestFirst(vs, VerificationsFor(vs, asset_id, cycle_id))
       IN [kind |-> "ok", id |-> EffectiveVerification(vs, history), history |-> history]

\* mutant: the oldest row of the pair is reported as effective
LookupAssetForCycle_OldestRow(cy, as, vs, asset_code, cycle_id) ==
  IF GetCycleOrRaise(cy, cycle_id) # "ok"
    THEN [kind |-> "CycleNotFound", asset |-> Null, id |-> Null, already_verified |-> FALSE]
  ELSE IF AssetsByCode(as, asset_code) = {}
    THEN [kind |-> "ok", asset |-> Null, id |-> Null, already_verified |-> FALSE]
  ELSE LET asset == CHOOSE i \in AssetsByCode(as, asset_code) : TRUE
           verifications == NewestFirst(vs, VerificationsFor(vs, asset, cycle_id))
       IN IF verifications = <<>>
            THEN [kind |-> "ok", asset |-> asset, id |-> Null, already_verified |-> FALSE]
            ELSE [kind |-> "ok", asset |-> asset,
                  id |-> verifications[Len(verifications)], already_verified |-> TRUE]

\* mutant: the rows of the asset are not filtered by cycle
LookupAssetForCycle_AnyCycle(cy, as, vs, asset_code, cycle_id) ==
  IF GetCycleOrRaise(cy, cycle_id) # "ok"
    THEN [kind |-> "CycleNotFound", asset |-> Null, id |-> Null, already_verified |-> FALSE]
  ELSE IF AssetsByCode(as, asset_code) = {}
    THEN [kind |-> "ok", asset |-> Null, id |-> Null, already_verified |-> FALSE]
  ELSE LET asset == CHOOSE i \in AssetsByCode(as, asset_code) : TRUE
           verifications == NewestFirst(vs, {i \in DOMAIN vs : vs[i].asset_id = asset})
       IN IF verifications = <<>>
            THEN [kind |-> "ok", asset |-> asset, id |-> Null, already_verified |-> FALSE]
            ELSE [kind |-> "ok", asset |-> asset,
                  id |-> verifications[1], already_verified |-> TRUE]

\* lookup_asset_for_cycle: (asset, effective, already_verified) as ids
LookupAssetForCycle(cy, as, vs, asset_code, cycle_id) ==
  IF GetCycleOrRaise(cy, cycle_id) # "ok"
    THEN [kind |-> "CycleNotFound", asset |-> Null, id |-> Null, already_verified |-> FALSE]
  ELSE IF AssetsByCode(as, asset_code) = {}
    THEN [kind |-> "ok", asset |-> Null, id |-> Null, already_verified |-> FALSE]
  ELSE LET asset == CHOOSE i \in AssetsByCode(as, asset_code) : TRUE
           verifications == NewestFirst(vs, VerificationsFor(vs, asset, cycle_id))
       IN IF verifications = <<>>
            THEN [kind |-> "ok", asset |-> asset, id |-> Null, already_verified |-> FALSE]
            ELSE [kind |-> "ok", asset |-> asset,
                  id |-> verifications[1], already_verified |-> TRUE]

\* asset codes in ascending order (ORDER BY asset_code ASC)
AssetCodeOrder == <<"AST001", "AST900">>

\* the asset ids `ids` of as in ascending order of asset_code
OrderByAssetCode(as, ids) ==
  LET codes == SelectSeq(AssetCodeOrder,
                         LAMBDA c : \E i \in ids : as[i].asset_code = c)
  IN [k \in DOMAIN codes |-> CHOOSE i \in ids : as[i].asset_code = codes[k]]

\* mutant: the anti-join looks at the verifications of every cycle
GetPendingAssets_AnyCycle(cy, as, vs, cycle_id) ==
  IF GetCycleOrRaise(cy, cycle_id) # "ok"
    THEN [kind |-> "CycleNotFound", id |-> Null, pending |-> <<>>]
  ELSE LET verified == {vs[i].asset_id : i \in DOMAIN vs}
       IN [kind |-> "ok", id |-> Null,
           pending |-> OrderByAssetCode(as,
                         {a \in DOMAIN as : as[a].is_active /\ a \notin verified})]

\* get_pending_assets: active assets with no verification in the cycle
GetPendingAssets(cy, as, vs, cycle_id) ==
  IF GetCycleOrRaise(cy, cycle_id) # "ok"
    THEN [kind |-> "CycleNotFound", id |-> Null, pending |-> <<>>]
  ELSE LET verified == {vs[i].asset_id : i \in {j \in DOMAIN vs : vs[j].cycle_id = cycle_id}}
       IN [kind |-> "ok", id |-> Null,
           pending |-> OrderByAssetCode(as,
                         {a \in DOMAIN as : as[a].is_active /\ a \notin verified})]

\* the read of p is answered: it changes nothing in the store
Answer(p, r) ==
  /\ pc' = [pc EXCEPT ![p] = "done"]
  /\ res' = [res EXCEPT ![p] = r]
  /\ UNCHANGED <<cycles, assets, verifs, clock, loc>>

GetAssetCycleDetailRead(p) ==
  \E asset_id \in AssetIds, cycle_id \in CycleIds :
    /\ Begin(p, [NoCall EXCEPT !.op = "get_asset_cycle_detail",
                               !.asset_id = asset_id, !.cycle_id = cycle_id])
    /\ Answer(p, GetAssetCycleDetail(cycles, assets, verifs, asset_id, cycle_id))

LookupAssetForCycleRead(p) ==
  \E asset_code \in AssetCodes, cycle_id \in CycleIds :
    /\ Begin(p, [NoCall EXCEPT !.op = "lookup_asset_for_cycle",
                               !.asset_code = asset_code, !.cycle_id = cycle_id])
    /\ Answer(p, LookupAssetForCycle(cycles, assets, verifs, asset_code, cycle_id))

GetPendingAssetsRead(p) ==
  \E cycle_id \in CycleIds :
    /\ Begin(p, [NoCall EXCEPT !.op = "get_pending_assets", !.cycle_id = cycle_id])
    /\ Answer(p, GetPendingAssets(cycles, assets, verifs, cycle_id))

\* mutant: ORDER BY created_at ASC
GetActiveCycle_OldestActive(cy) ==
  LET active == NewestFirst(cy, {i \in DOMAIN cy : cy[i].status = "ACTIVE"})
  IN [kind |-> "ok", id |-> IF active = <<>> THEN Null ELSE active[Len(active)]]

\* get_active_cycle: WHERE status = 'ACTIVE' ORDER BY created_at DESC LIMIT 1
GetActiveCycle(cy) ==
  LET active == NewestFirst(cy, {i \in DOMAIN cy : cy[i].status = "ACTIVE"})
  IN [kind |-> "ok", id |-> IF active = <<>> THEN Null ELSE active[1]]

GetActiveCycleRead(p) ==
  /\ Begin(p, [NoCall EXCEPT !.op = "get_active_cycle"])
  /\ Answer(p, GetActiveCycle(cycles))

\* ------------------------------------------------------------ specification
Handler(p) ==
  \/ CreateCycleBegin(p)
  \/ CreateCycleCommit(p)
  \/ ActivateCycleBegin(p)
  \/ ActivateCycleCommit(p)
  \/ LockCycleBegin(p)
  \/ LockCycleCommit(p)
  \/ UnlockCycleBegin(p)
  \/ UnlockCycleCommit(p)
  \/ CreateVerificationBegin(p)
  \/ CreateVerificationAsset(p)
  \/ CreateVerificationFind(p)
  \/ CreateVerificationInsert(p)
  \/ CreateOverrideBegin(p)
  \/ CreateOverrideCheck(p)
  \/ CreateOverrideInsert(p)
  \/ OnboardBegin(p)
  \/ OnboardPrecheck(p)
  \/ OnboardFlush(p)
  \/ OnboardCommit(p)
  \/ Respond(p)

\* concurrent request handlers
Next == \E p \in Procs : Handler(p)

Spec == Init /\ [][Next]_vars

\* one request at a time
SeqNext == \E p \in SeqProcs : Handler(p)

SeqSpec == Init /\ [][SeqNext]_vars

\* one request at a time, reads included
ReadNext ==
  \E p \in SeqProcs :
    \/ Handler(p)
    \/ GetAssetCycleDetailRead(p)
    \/ LookupAssetForCycleRead(p)
    \/ GetPendingAssetsRead(p)
    \/ GetActiveCycleRead(p)
    \/ CreateNewAssetBegin(p)

ReadSpec == Init /\ [][ReadNext]_vars

\* concurrent administrators: cycle lifecycle requests only
LifecycleNext ==
  \E p \in LifecycleProcs :
    \/ CreateCycleBegin(p)
    \/ CreateCycleCommit(p)
    \/ ActivateCycleBegin(p)
    \/ ActivateCycleCommit(p)
    \/ LockCycleBegin(p)
    \/ LockCycleCommit(p)
    \/ UnlockCycleBegin(p)
    \/ UnlockCycleCommit(p)
    \/ Respond(p)

LifecycleSpec == Init /\ [][LifecycleNext]_vars

\* concurrent clients: new-asset requests and cycle lifecycle requests
NewAssetNext ==
  \E p \in Procs :
    \/ CreateCycleBegin(p)
    \/ CreateCycleCommit(p)
    \/ ActivateCycleBegin(p)
    \/ ActivateCycleCommit(p)
    \/ LockCycleBegin(p)
    \/ LockCycleCommit(p)
    \/ UnlockCycleBegin(p)
    \/ UnlockCycleCommit(p)
    \/ CreateNewAssetBegin(p)
    \/ OnboardPrecheck(p)
    \/ OnboardFlush(p)
    \/ OnboardCommit(p)
    \/ Respond(p)

NewAssetSpec == Init /\ [][NewAssetNext]_vars

\* the requests of the four users, through the endpoints
ApiNext ==
  \E p \in ApiProcs :
    \/ CreateCycleEndpoint(p)
    \/ CreateCycleCommit(p)
    \/ ActivateCycleEndpoint(p)
    \/ LockCycleEndpoint(p)
    \/ LockCycleCommit(p)
    \/ UnlockCycleEndpoint(p)
    \/ UnlockCycleCommit(p)
    \/ CreateVerificationEndpoint(p)
    \/ CreateVerificationAsset(p)
    \/ CreateVerificationFind(p)
    \/ CreateVerificationInsert(p)
    \/ OverrideVerificationEndpoint(p)
    \/ CreateOverrideCheck(p)
    \/ CreateOverrideInsert(p)
    \/ CreateNewAssetEndpoint(p)
    \/ OnboardPrecheck(p)
    \/ OnboardFlush(p)
    \/ OnboardCommit(p)
    \/ Respond(p)

ApiSpec == Init /\ [][ApiNext]_vars

\* ================================================================= properties
\* the handler of p takes a step / returns or raises in this step
Steps(p) == pc'[p] # pc[p]

Completes(p) == pc[p] # "done" /\ pc'[p] = "done"

\* the handler of p executes its first statement in this step
Starts(p) == pc[p] = "idle" /\ pc'[p] # "idle"

\* the rows this step inserts
NewVerifications == (DOMAIN verifs') \ (DOMAIN verifs)

Writable(cy, cycle_id) == cycle_id \in DOMAIN cy /\ cy[cycle_id].status # "LOCKED"

\* the newest row of a non-empty set of row ids (ORDER BY created_at DESC)
LatestVerification(vs, ids) ==
  CHOOSE i \in ids : \A j \in ids : vs[j].created_at <= vs[i].created_at

\* sanity: a create_verification request served alone ends as
\* CreateVerificationOutcome computes from the store it started on
OutcomeAgrees ==
  [][\A p \in SeqProcs :
       (Completes(p) /\ call'[p].op = "create_verification")
         => res'[p].kind = CreateVerificationOutcome(cycles, assets, verifs,
                             call'[p].asset_id, call'[p].cycle_id,
                             call'[p].allow_duplicate)]_vars

\* ------------------------------------------------------------------------ C1
\* C1: a create_verification whose lock check reads a LOCKED cycle raises
\* CycleLocked and inserts no row, for every asset id (existing or not) and
\* either value of allow_duplicate.
C1_LockedCycleRejectsVerification ==
  [][\A p \in AllProcs :
       (/\ Starts(p)
        /\ call'[p].op = "create_verification"
        /\ call'[p].cycle_id \in DOMAIN cycles
        /\ cycles[call'[p].cycle_id].status = "LOCKED")
         => (/\ pc'[p] = "done"
             /\ res'[p].kind = "CycleLocked"
             /\ verifs' = verifs)]_vars

\* a forced verification of a missing asset was refused on a locked cycle
C1_Witness ==
  \E p \in AllProcs :
    /\ pc[p] = "done"
    /\ call[p].op = "create_verification"
    /\ res[p].kind = "CycleLocked"
    /\ call[p].allow_duplicate
    /\ call[p].asset_id \notin DOMAIN assets
    /\ cycles[call[p].cycle_id].status = "LOCKED"

\* ------------------------------------------------------------------------ C2
\* C2: no create_verification or create_override commits a row into a cycle
\* whose committed status is LOCKED at that moment, whatever lock_cycle does
\* concurrently.
C2_NoCommitIntoLockedCycle ==
  [][\A p \in AllProcs :
       (/\ Completes(p)
        /\ call[p].op \in {"create_verification", "create_override"}
        /\ NewVerifications # {})
         => \A i \in NewVerifications :
              cycles[verifs'[i].cycle_id].status # "LOCKED"]_vars

\* ------------------------------------------------------------------------ C3
\* C3: no operation, create_asset_and_initial_verification included, inserts
\* an asset or a verification for a cycle that is LOCKED when it is called.
C3_NoVerificationInLockedCycle ==
  [][/\ \A i \in NewVerifications : cycles[verifs'[i].cycle_id].status # "LOCKED"
     /\ \A p \in AllProcs :
          (/\ Steps(p)
           /\ call[p].op = "create_asset_and_initial_verification"
           /\ call[p].cycle_id \in DOMAIN cycles
           /\ cycles[call[p].cycle_id].status = "LOCKED")
            => assets' = assets /\ verifs' = verifs]_vars

\* ------------------------------------------------------------------------ C4
\* C4 as stated: the unlock of a locked cycle leaves it ACTIVE with locked_at
\* cleared, and every create_verification call refused with CycleLocked
\* before the unlock returns without an error when repeated after it.
C4_UnlockMakesEveryRefusedCallSucceed ==
  [][\A p \in AllProcs :
       (Completes(p) /\ call[p].op = "unlock_cycle")
         => LET c == call[p].cycle_id IN
              /\ cycles'[c].status = "ACTIVE"
              /\ cycles'[c].locked_at = Null
              /\ \A a \in AssetIds, d \in BOOLEAN :
                   CreateVerificationOutcome(cycles, assets, verifs, a, c, d) = "CycleLocked"
                     => CreateVerificationOutcome(cycles', assets', verifs', a, c, d)
                          \in {"created", "duplicate"}]_vars

\* C4 amended: the unlock of a locked cycle leaves it ACTIVE with locked_at
\* cleared, and a create_verification call refused with CycleLocked before the
\* unlock is no longer refused with CycleLocked after it: it creates a row
\* when its asset exists and the pair holds no row, returns the one row of the
\* pair as a duplicate when allow_duplicate is false, and raises AssetNotFound
\* when its asset does not exist.
C4_UnlockRestoresWritability ==
  [][\A p \in AllProcs :
       (Completes(p) /\ call[p].op = "unlock_cycle")
         => LET c == call[p].cycle_id IN
              /\ cycles'[c].status = "ACTIVE"
              /\ cycles'[c].locked_at = Null
              /\ \A a \in AssetIds, d \in BOOLEAN :
                   LET after == CreateVerificationOutcome(cycles', assets', verifs', a, c, d) IN
                     CreateVerificationOutcome(cycles, assets, verifs, a, c, d) = "CycleLocked"
                       => /\ after # "CycleLocked"
                          /\ (a \in DOMAIN assets /\ VerificationsFor(verifs, a, c) = {})
                               => after = "created"
                          /\ (/\ a \in DOMAIN assets
                              /\ Cardinality(VerificationsFor(verifs, a, c)) = 1
                              /\ ~d)
                               => after = "duplicate"
                          /\ a \notin DOMAIN assets => after = "AssetNotFound"]_vars

\* a cycle that was locked (it has rows from before) has just been unlocked
C4_Witness ==
  \E p \in AllProcs :
    /\ pc[p] = "done"
    /\ call[p].op = "unlock_cycle"
    /\ res[p].kind = "ok"
    /\ cycles[call[p].cycle_id].status = "ACTIVE"
    /\ cycles[call[p].cycle_id].locked_at = Null
    /\ \E a \in AssetIds :
         CreateVerificationOutcome(cycles, assets, verifs, a, call[p].cycle_id, FALSE)
           = "created"

\* ------------------------------------------------------------------------ C5
\* C5: served one at a time, the requests change a cycle's status only along
\* DRAFT -> ACTIVE (activate), ACTIVE -> LOCKED (lock), LOCKED -> ACTIVE
\* (unlock); a cycle is created DRAFT or ACTIVE, none disappears and none
\* returns to DRAFT.
LegalTransitions ==
  {<<"activate_cycle", "DRAFT", "ACTIVE">>,
   <<"lock_cycle", "ACTIVE", "LOCKED">>,
   <<"unlock_cycle", "LOCKED", "ACTIVE">>}

C5_StatusFollowsStateMachine ==
  [][/\ \A c \in DOMAIN cycles :
          /\ c \in DOMAIN cycles'
          /\ cycles'[c].status # cycles[c].status
               => \E p \in AllProcs :
                    /\ Completes(p)
                    /\ call[p].cycle_id = c
                    /\ <<call[p].op, cycles[c].status, cycles'[c].status>>
                         \in LegalTransitions
     /\ \A c \in (DOMAIN cycles') \ (DOMAIN cycles) :
          /\ cycles'[c].status \in {"DRAFT", "ACTIVE"}
          /\ \E p \in AllProcs : Completes(p) /\ call[p].op = "create_cycle"]_vars

\* a lock has succeeded while another cycle is still DRAFT
C5_Witness ==
  \E p \in AllProcs :
    /\ pc[p] = "done"
    /\ call[p].op = "lock_cycle"
    /\ res[p].kind = "ok"
    /\ cycles[call[p].cycle_id].status = "LOCKED"
    /\ \E q \in DOMAIN cycles : cycles[q].status = "DRAFT"

\* ------------------------------------------------------------------------ C6
\* C6: activate on a cycle that is not DRAFT, lock on one that is not ACTIVE
\* and unlock on one that is not LOCKED raise CycleStatusError and leave the
\* cycle as it is; each raises CycleNotFound for an id that does not exist.
C6_IllegalTransitionRefused ==
  [][\A p \in AllProcs :
       (Starts(p) /\ call'[p].op \in {"activate_cycle", "lock_cycle", "unlock_cycle"})
         => LET c == call'[p].cycle_id
                op == call'[p].op IN
              /\ c \notin DOMAIN cycles
                   => pc'[p] = "done" /\ res'[p].kind = "CycleNotFound" /\ cycles' = cycles
              /\ (/\ c \in DOMAIN cycles
                  /\ \/ op = "activate_cycle" /\ cycles[c].status # "DRAFT"
                     \/ op = "lock_cycle" /\ cycles[c].status # "ACTIVE"
                     \/ op = "unlock_cycle" /\ cycles[c].status # "LOCKED")
                   => pc'[p] = "done" /\ res'[p].kind = "CycleStatusError" /\ cycles' = cycles]_vars

\* a lock of a DRAFT cycle was refused
C6_Witness ==
  \E p \in AllProcs :
    /\ pc[p] = "done"
    /\ call[p].op = "lock_cycle"
    /\ res[p].kind = "CycleStatusError"
    /\ cycles[call[p].cycle_id].status = "DRAFT"
    /\ cycles[call[p].cycle_id].locked_at = Null

\* ------------------------------------------------------------------------ C7
\* C7: served one at a time, every create_verification with
\* allow_duplicate = false on a pair that holds one row in a writable cycle
\* returns (none, that row, duplicate = true), raises nothing and writes no row.
C7_DuplicateIsFlaggedNotWritten ==
  [][\A p \in AllProcs :
       (/\ Steps(p)
        /\ call'[p].op = "create_verification"
        /\ ~call'[p].allow_duplicate
        /\ Writable(cycles, call'[p].cycle_id)
        /\ Cardinality(VerificationsFor(verifs, call'[p].asset_id, call'[p].cycle_id)) = 1)
         => /\ verifs' = verifs
            /\ pc'[p] = "done"
                 => /\ res'[p].kind = "duplicate"
                    /\ {res'[p].id} =
                         VerificationsFor(verifs, call'[p].asset_id, call'[p].cycle_id)]_vars

\* a second attempt on a verified asset came back flagged as a duplicate
C7_Witness ==
  \E p \in AllProcs :
    /\ pc[p] = "done"
    /\ call[p].op = "create_verification"
    /\ res[p].kind = "duplicate"
    /\ VerificationsFor(verifs, call[p].asset_id, call[p].cycle_id) = {res[p].id}

\* ------------------------------------------------------------------------ C8
\* C8: on a pair that holds two or more rows in a writable cycle,
\* create_verification with allow_duplicate = false returns the newest row
\* flagged as duplicate and writes nothing, and with allow_duplicate = true
\* inserts a row and returns it.
C8_LatestOfSeveralRows ==
  [][\A p \in AllProcs :
       (/\ Completes(p)
        /\ call'[p].op = "create_verification"
        /\ Writable(cycles, call'[p].cycle_id)
        /\ Cardinality(VerificationsFor(verifs, call'[p].asset_id, call'[p].cycle_id)) >= 2)
         => IF call'[p].allow_duplicate
              THEN /\ res'[p].kind = "created"
                   /\ Len(verifs') = Len(verifs) + 1
              ELSE /\ res'[p].kind = "duplicate"
                   /\ res'[p].id = LatestVerification(verifs,
                        VerificationsFor(verifs, call'[p].asset_id, call'[p].cycle_id))
                   /\ verifs' = verifs]_vars

\* ------------------------------------------------------------------------ C9
\* two requests with allow_duplicate = false for the same pair, which held no
\* row before them, have both returned
Raced(p, q) ==
  /\ p # q
  /\ pc[p] = "done" /\ pc[q] = "done"
  /\ call[p].op = "create_verification" /\ call[q].op = "create_verification"
  /\ call[p].asset_id = call[q].asset_id
  /\ call[p].cycle_id = call[q].cycle_id
  /\ ~call[p].allow_duplicate /\ ~call[q].allow_duplicate
  /\ res[p].kind \in {"created", "duplicate"}
  /\ res[q].kind \in {"created", "duplicate"}
  /\ VerificationsFor(verifs, call[p].asset_id, call[p].cycle_id)
       \subseteq {res[p].id, res[q].id}

\* C9 as stated: of two create_verification calls with allow_duplicate = false
\* racing for the first row of a pair, at most one observes duplicate = false.
C9_AtMostOneRacerCreates ==
  \A p, q \in Procs :
    Raced(p, q) => ~(res[p].kind = "created" /\ res[q].kind = "created")

\* C9 amended: a create_verification call with allow_duplicate = false
\* observes duplicate = true, with the committed row, when one row of the pair
\* is committed at its duplicate check, and goes on to insert its own row
\* (duplicate = false) when none is; so of two racing calls at most one creates
\* a row unless both checks run before either insert commits, and then both
\* create one.
C9_DuplicateDecidedAtCheck ==
  [][\A p \in Procs :
       (/\ Steps(p)
        /\ call[p].op = "create_verification"
        /\ ~call[p].allow_duplicate)
         => LET found == VerificationsFor(verifs, call[p].asset_id, call[p].cycle_id) IN
              /\ pc[p] = "cv_find"
                   => /\ verifs' = verifs
                      /\ found = {} => pc'[p] = "cv_insert"
                      /\ Cardinality(found) = 1
                           => /\ pc'[p] = "done"
                              /\ res'[p].kind = "duplicate"
                              /\ {res'[p].id} = found
              /\ pc[p] = "cv_insert"
                   => /\ pc'[p] = "done"
                      /\ res'[p] = [kind |-> "created", id |-> Len(verifs) + 1]
                      /\ Len(verifs') = Len(verifs) + 1
                      /\ verifs'[Len(verifs')].asset_id = call[p].asset_id
                      /\ verifs'[Len(verifs')].cycle_id = call[p].cycle_id]_vars

\* both racing calls created a row, and both rows are in the store
C9_Witness ==
  \E p, q \in Procs :
    /\ Raced(p, q)
    /\ res[p].kind = "created" /\ res[q].kind = "created"
    /\ res[p].id # res[q].id
    /\ {res[p].id, res[q].id} \subseteq DOMAIN verifs

\* ----------------------------------------------------------------------- C10
\* C10: no step of any interleaving of the requests removes or changes a
\* committed verification row; create_override leaves the row it corrects
\* as it is.
C10_HistoryIsAppendOnly ==
  [][\A i \in DOMAIN verifs : i \in DOMAIN verifs' /\ verifs'[i] = verifs[i]]_vars

\* an override is committed next to the row it corrects
C10_Witness ==
  \E i \in DOMAIN verifs :
    /\ verifs[i].override_of_verification_id \in DOMAIN verifs
    /\ verifs[i].source = "OVERRIDDEN"
    /\ verifs[verifs[i].override_of_verification_id].source = "SELF"

\* ----------------------------------------------------------------------- C11
\* C11: every row created by create_override, for any payload the override
\* endpoint accepts, has source "OVERRIDDEN" and override_of_verification_id
\* equal to the id of the overridden verification.
C11_OverrideRowIsMarkedOverridden ==
  [][\A p \in AllProcs :
       (Completes(p) /\ call[p].op = "create_override")
         => \A i \in NewVerifications :
              /\ verifs'[i].source = "OVERRIDDEN"
              /\ verifs'[i].override_of_verification_id = call[p].verification_id]_vars

\* ----------------------------------------------------------------------- C12
\* C12: in every reachable state, a row whose override_of_verification_id is
\* set references an existing row of the same asset and the same cycle.
C12_OverrideReferencesSamePair ==
  \A i \in DOMAIN verifs :
    verifs[i].override_of_verification_id # Null
      => /\ verifs[i].override_of_verification_id \in DOMAIN verifs
         /\ verifs[verifs[i].override_of_verification_id].asset_id = verifs[i].asset_id
         /\ verifs[verifs[i].override_of_verification_id].cycle_id = verifs[i].cycle_id

\* an override is stored while a newer cycle than that of its target exists
C12_Witness ==
  \E i \in DOMAIN verifs :
    /\ verifs[i].override_of_verification_id \in DOMAIN verifs
    /\ verifs[i].cycle_id < Len(cycles)

\* ----------------------------------------------------------------------- C13
\* C13: create_override raises VerificationNotFound when the target id does
\* not exist and CycleLocked when the target's cycle is LOCKED, and writes no
\* row in either case.
C13_OverrideRefusals ==
  [][\A p \in AllProcs :
       (Completes(p) /\ call'[p].op = "create_override")
         => LET v == call'[p].verification_id IN
              /\ v \notin DOMAIN verifs
                   => res'[p].kind = "VerificationNotFound" /\ verifs' = verifs
              /\ (v \in DOMAIN verifs /\ cycles[verifs[v].cycle_id].status = "LOCKED")
                   => res'[p].kind = "CycleLocked" /\ verifs' = verifs]_vars

\* an override of a row of a locked cycle was refused
C13_Witness ==
  \E p \in AllProcs :
    /\ pc[p] = "done"
    /\ call[p].op = "create_override"
    /\ res[p].kind = "CycleLocked"
    /\ call[p].verification_id \in DOMAIN verifs
    /\ cycles[verifs[call[p].verification_id].cycle_id].status = "LOCKED"

\* ----------------------------------------------------------------------- C14
\* C14: get_asset_cycle_detail returns as effective the most recently created
\* row of the pair with source "OVERRIDDEN" if there is one, otherwise the most
\* recently created row of the pair, and (none, []) when the pair has no row.
C14_EffectiveRecordRule ==
  [][\A p \in AllProcs :
       (/\ Completes(p)
        /\ call'[p].op = "get_asset_cycle_detail"
        /\ call'[p].asset_id \in DOMAIN assets
        /\ call'[p].cycle_id \in DOMAIN cycles)
         => LET rows == VerificationsFor(verifs, call'[p].asset_id, call'[p].cycle_id)
                overridden == {i \in rows : verifs[i].source = "OVERRIDDEN"}
            IN /\ res'[p].kind = "ok"
               /\ rows = {} => res'[p].id = Null /\ res'[p].history = <<>>
               /\ overridden # {} => res'[p].id = LatestVerification(verifs, overridden)
               /\ (rows # {} /\ overridden = {})
                    => res'[p].id = LatestVerification(verifs, rows)]_vars

\* a detail read answered with an OVERRIDDEN row that is not the newest row
C14_Witness ==
  \E p \in AllProcs :
    /\ pc[p] = "done"
    /\ call[p].op = "get_asset_cycle_detail"
    /\ res[p].kind = "ok"
    /\ Len(res[p].history) >= 2
    /\ res[p].id # res[p].history[1]
    /\ verifs[res[p].id].source = "OVERRIDDEN"

C16_LookupRule ==
  [][\A p \in AllProcs :
       (/\ Completes(p)
        /\ call'[p].op = "lookup_asset_for_cycle"
        /\ call'[p].cycle_id \in DOMAIN cycles)
         => LET found == {a \in DOMAIN assets : assets[a].asset_code = call'[p].asset_code}
            IN /\ res'[p].kind = "ok"
               /\ found = {}
                    => /\ res'[p].asset = Null
                       /\ res'[p].id = Null
                       /\ ~res'[p].already_verified
               /\ \A a \in found :
                    LET rows == VerificationsFor(verifs, a, call'[p].cycle_id)
                    IN /\ res'[p].asset = a
                       /\ res'[p].already_verified <=> rows # {}
                       /\ rows # {} => res'[p].id = LatestVerification(verifs, rows)
                       /\ rows = {} => res'[p].id = Null]_vars

\* a lookup answered with the newest of several rows
C16_Witness ==
  \E p \in AllProcs :
    /\ pc[p] = "done"
    /\ call[p].op = "lookup_asset_for_cycle"
    /\ res[p].kind = "ok"
    /\ res[p].already_verified
    /\ Cardinality(VerificationsFor(verifs, res[p].asset, call[p].cycle_id)) >= 2
    /\ \A i \in VerificationsFor(verifs, res[p].asset, call[p].cycle_id) :
         verifs[i].created_at <= verifs[res[p].id].created_at

\* ----------------------------------------------------------------------- C17
\* the assets with at least one verification row in the cycle
VerifiedIn(vs, cycle_id) == {vs[i].asset_id : i \in {j \in DOMAIN vs : vs[j].cycle_id = cycle_id}}

Onboarded(as) == {a \in DOMAIN as : a > Len(SeedCodes)}

\* C18: in every state a concurrent reader can observe, an asset created by
\* create_asset_and_initial_verification exists if and only if its initial
\* verification row exists; no asset without that row is visible, also while
\* an onboarding is under way or after it failed.
C18_OnboardingIsAtomic ==
  /\ \A a \in Onboarded(assets) :
       \E i \in DOMAIN verifs :
         /\ verifs[i].asset_id = a
         /\ verifs[i].status = OnboardingStatus
         /\ verifs[i].source = OnboardingSource
  /\ \A i \in DOMAIN verifs :
       verifs[i].status = OnboardingStatus => verifs[i].asset_id \in Onboarded(assets)

\* an onboarding has inserted its asset and not yet committed: neither the
\* asset nor a verification of it is visible
C18_Witness ==
  \E p \in Procs :
    /\ pc[p] = "ob_commit"
    /\ loc[p].flushed
    /\ \A a \in DOMAIN assets : assets[a].asset_code # call[p].asset_code
    /\ \A i \in DOMAIN verifs : verifs[i].status # OnboardingStatus

\* ----------------------------------------------------------------------- C19
\* p and q have both passed the pre-check of an onboarding of the same code
PastPrecheck(p, q) ==
  /\ p # q
  /\ pc[p] \in {"ob_flush", "ob_commit"}
  /\ pc[q] \in {"ob_flush", "ob_commit"}
  /\ call[p].asset_code = call[q].asset_code

\* C19: of two onboarding calls for one asset_code that both passed the
\* pre-check, exactly one commits an asset with its verification and the other
\* raises AssetAlreadyExists; afterwards one asset has the code and the failed
\* call has left no row.
C19_OneOnboardingWins ==
  [][\A p, q \in Procs :
       /\ PastPrecheck(p, q) => ~(pc[p] = "ob_commit" /\ pc[q] = "ob_commit")
       /\ (PastPrecheck(p, q) /\ Completes(p))
            => /\ res'[p].kind = "created"
               /\ pc'[q] = "ob_flush"
               /\ Len(assets') = Len(assets) + 1
               /\ Len(verifs') = Len(verifs) + 1
               /\ verifs'[Len(verifs')].asset_id = Len(assets')
               /\ Cardinality({a \in DOMAIN assets' :
                                 assets'[a].asset_code = call[p].asset_code}) = 1
       /\ (/\ p # q
           /\ pc[q] = "ob_flush"
           /\ pc[p] = "done"
           /\ call[p].op = "create_asset_and_initial_verification"
           /\ res[p].kind = "created"
           /\ call[p].asset_code = call[q].asset_code
           /\ Steps(q))
            => /\ pc'[q] = "done"
               /\ res'[q].kind = "AssetAlreadyExists"
               /\ assets' = assets
               /\ verifs' = verifs]_vars

\* the call that lost the race has failed after the other committed
C19_Witness ==
  \E p, q \in Procs :
    /\ p # q
    /\ pc[p] = "done" /\ pc[q] = "done"
    /\ call[p].op = "create_asset_and_initial_verification"
    /\ call[q].op = "create_asset_and_initial_verification"
    /\ call[p].asset_code = call[q].asset_code
    /\ res[p].kind = "created"
    /\ res[q].kind = "AssetAlreadyExists"
    /\ Cardinality({a \in DOMAIN assets : assets[a].asset_code = call[p].asset_code}) = 1
    /\ Cardinality({i \in DOMAIN verifs : verifs[i].status = OnboardingStatus}) = 1

\* ----------------------------------------------------------------------- C20
\* C20: create_asset_and_initial_verification raises CycleNotFound when the
\* cycle does not exist and AssetAlreadyExists when an asset with the code
\* exists, and writes nothing in either case; no two assets ever share an
\* asset_code.
C20_OnboardingRefusals ==
  [][/\ \A p \in AllProcs :
          (Completes(p) /\ call'[p].op = "create_asset_and_initial_verification")
            => /\ call'[p].cycle_id \notin DOMAIN cycles
                    => /\ res'[p].kind = "CycleNotFound"
                       /\ assets' = assets /\ verifs' = verifs
               /\ (/\ call'[p].cycle_id \in DOMAIN cycles
                   /\ \E a \in DOMAIN assets : assets[a].asset_code = call'[p].asset_code)
                    => /\ res'[p].kind = "AssetAlreadyExists"
                       /\ assets' = assets /\ verifs' = verifs
     /\ \A a, b \in DOMAIN assets' :
          assets'[a].asset_code = assets'[b].asset_code => a = b]_vars

\* an onboarding with the code of an existing asset was refused
C20_Witness ==
  \E p \in AllProcs :
    /\ pc[p] = "done"
    /\ call[p].op = "create_asset_and_initial_verification"
    /\ res[p].kind = "AssetAlreadyExists"
    /\ call[p].cycle_id \in DOMAIN cycles
    /\ \E a \in Onboarded(assets) : assets[a].asset_code = call[p].asset_code

\* ----------------------------------------------------------------------- C21
\* C21 as stated: create_cycle raises DuplicateTag for a tag that exists and
\* an invalid-status error for an initial status outside {DRAFT, ACTIVE}, adds
\* no cycle in either case, and cycle tags stay distinct.
C21_CreateCycleRefusalsAsStated ==
  [][\A p \in AllProcs :
       (Completes(p) /\ call'[p].op = "create_cycle")
         => /\ (\E c \in DOMAIN cycles : cycles[c].tag = call'[p].tag)
                 => res'[p].kind = "DuplicateTagError" /\ cycles' = cycles
            /\ call'[p].status \notin {"DRAFT", "ACTIVE"}
                 => res'[p].kind = "ValueError" /\ cycles' = cycles]_vars

\* C21 amended: create_cycle raises the invalid-status error for an initial
\* status outside {DRAFT, ACTIVE}, whatever the tag, and DuplicateTag for a
\* valid status with a tag that exists; no cycle is added in either case, and
\* in every state reached by sequential calls all cycle tags are distinct.
C21_CreateCycleRefusals ==
  [][/\ \A p \in AllProcs :
          (Completes(p) /\ call'[p].op = "create_cycle")
            => /\ call'[p].status \notin {"DRAFT", "ACTIVE"}
                    => res'[p].kind = "ValueError" /\ cycles' = cycles
               /\ (/\ call'[p].status \in {"DRAFT", "ACTIVE"}
                   /\ \E c \in DOMAIN cycles : cycles[c].tag = call'[p].tag)
                    => res'[p].kind = "DuplicateTagError" /\ cycles' = cycles
     /\ \A c, d \in DOMAIN cycles' : cycles'[c].tag = cycles'[d].tag => c = d]_vars

\* a second cycle with the tag of an existing one was refused
C21_Witness ==
  \E p \in AllProcs :
    /\ pc[p] = "done"
    /\ call[p].op = "create_cycle"
    /\ res[p].kind = "DuplicateTagError"
    /\ Cardinality({c \in DOMAIN cycles : cycles[c].tag = call[p].tag}) = 1

\* ----------------------------------------------------------------------- C24
\* C24: under any interleaving of activate, lock and unlock calls on one
\* cycle, every committed write of a transition is a legal transition from
\* the status committed immediately before it, and a call whose required
\* status no longer holds when it commits does not change the cycle.
C24_CommittedTransitionsAreLegal ==
  [][\A p \in AllProcs :
       (/\ Completes(p)
        /\ call[p].op \in {"activate_cycle", "lock_cycle", "unlock_cycle"})
         => LET c == call[p].cycle_id IN
              IF <<call[p].op, cycles[c].status, cycles'[c].status>> \in LegalTransitions
                THEN TRUE
                ELSE cycles'[c] = cycles[c]]_vars

\* ----------------------------------------------------------------------- C25
\* C25: in every reachable state, under sequential and interleaved lifecycle
\* calls alike, a cycle's locked_at is set if and only if its status is LOCKED.
C25_LockedAtIffLocked ==
  \A c \in DOMAIN cycles : cycles[c].locked_at # Null <=> cycles[c].status = "LOCKED"

\* ----------------------------------------------------------------------- C22
\* C22: a new-asset request that finds its cycle LOCKED is answered 409 and
\* creates neither an asset nor a verification, and no new-asset request,
\* whatever lock_cycle does concurrently, commits its initial verification
\* into a cycle whose committed status is LOCKED at that moment.
C22_NewAssetEndpointEnforcesLock ==
  [][\A p \in AllProcs :
       /\ (/\ Starts(p)
           /\ call'[p].op = "create_new_asset_endpoint"
           /\ call'[p].cycle_id \in DOMAIN cycles
           /\ cycles[call'[p].cycle_id].status = "LOCKED")
            => (/\ pc'[p] = "done"
                /\ StatusCode(call'[p].op, res'[p].kind) = HTTP_409_CONFLICT
                /\ assets' = assets
                /\ verifs' = verifs)
       /\ (Completes(p) /\ call[p].op = "create_new_asset_endpoint")
            => \A i \in NewVerifications :
                 cycles[verifs'[i].cycle_id].status # "LOCKED"]_vars

\* ----------------------------------------------------------------------- C23
\* C23: a request of a user who is not ADMIN creates no cycle and changes no
\* cycle's status, a request of an OWNER or a VIEWER creates no override row
\* and onboards no asset, and a request of a VIEWER creates no verification;
\* each such request is answered 403 and leaves the store as it was.
C23_RoleGating ==
  [][\A p \in ApiProcs :
       LET rejected == /\ pc'[p] = "done"
                       /\ StatusCode(call'[p].op, res'[p].kind) = HTTP_403_FORBIDDEN
                       /\ UNCHANGED <<cycles, assets, verifs>>
       IN
       /\ (Steps(p) /\ RoleOf(p) # "ADMIN") => cycles' = cycles
       /\ (/\ Starts(p)
           /\ RoleOf(p) # "ADMIN"
           /\ call'[p].op \in {"create_cycle", "activate_cycle", "lock_cycle",
                                "unlock_cycle"})
            => rejected
       /\ (Steps(p) /\ RoleOf(p) \in {"OWNER", "VIEWER"})
            => /\ assets' = assets
               /\ \A i \in NewVerifications :
                    verifs'[i].override_of_verification_id = Null
       /\ (/\ Starts(p)
           /\ RoleOf(p) \in {"OWNER", "VIEWER"}
           /\ call'[p].op \in {"create_override", "create_new_asset_endpoint"})
            => rejected
       /\ (Steps(p) /\ RoleOf(p) = "VIEWER") => verifs' = verifs
       /\ (Starts(p) /\ RoleOf(p) = "VIEWER" /\ call'[p].op = "create_verification")
            => rejected]_vars

\* an OWNER's override of a row that exists in a writable cycle was refused
C23_Witness ==
  \E p \in ApiProcs :
    /\ RoleOf(p) = "OWNER"
    /\ pc[p] = "done"
    /\ call[p].op = "create_override"
    /\ res[p].kind = "AuthorizationError"
    /\ call[p].verification_id \in DOMAIN verifs
    /\ Writable(cycles, verifs[call[p].verification_id].cycle_id)

\* ----------------------------------------------------------------------- C26
\* C26: for an asset and a cycle that exist, lookup_asset_for_cycle reports
\* the newest row of the pair and get_asset_cycle_detail reports another row
\* exactly when the pair has a row with source OVERRIDDEN and the newest row
\* of the pair is not one; the row the detail reports is then an older
\* OVERRIDDEN row of the same pair.
C26_LookupAndDetailDisagree ==
  \A a \in DOMAIN assets, c \in DOMAIN cycles :
    LET l == LookupAssetForCycle(cycles, assets, verifs, assets[a].asset_code, c)
        d == GetAssetCycleDetail(cycles, assets, verifs, a, c)
        rows == VerificationsFor(verifs, a, c)
        overridden == {i \in rows : verifs[i].source = "OVERRIDDEN"}
    IN l.asset = a
         => /\ rows # {} => l.id = LatestVerification(verifs, rows)
            /\ l.id # d.id
                 <=> (overridden # {} /\ LatestVerification(verifs, rows) \notin overridden)
            /\ l.id # d.id
                 => /\ d.id \in overridden
                    /\ l.id \in rows
                    /\ verifs[d.id].created_at < verifs[l.id].created_at

\* a lookup has reported the newest row of a pair for which the detail
\* reports an older row, an override with source OVERRIDDEN
C26_Witness ==
  \E p \in AllProcs :
    /\ pc[p] = "done"
    /\ call[p].op = "lookup_asset_for_cycle"
    /\ res[p].kind = "ok"
    /\ res[p].already_verified
    /\ LET d == GetAssetCycleDetail(cycles, assets, verifs, res[p].asset, call[p].cycle_id)
       IN /\ d.kind = "ok"
          /\ d.id # res[p].id
          /\ verifs[d.id].source = "OVERRIDDEN"
          /\ verifs[d.id].override_of_verification_id # Null
          /\ res[p].id = LatestVerification(verifs,
                            VerificationsFor(verifs, res[p].asset, call[p].cycle_id))

\* ----------------------------------------------------------------------- C27
\* the rows of the pair that are not overrides
NonOverrides(vs, asset_id, cycle_id) ==
  {i \in VerificationsFor(vs, asset_id, cycle_id) :
     vs[i].override_of_verification_id = Null}

\* C27: served one at a time, the only step that gives a pair a second or
\* later row that is not an override is the insert of a create_verification
\* call for that pair with allow_duplicate = true, which succeeds.
C27_DuplicatesOnlyWhenForced ==
  [][\A a \in DOMAIN assets', c \in DOMAIN cycles' :
       (/\ Cardinality(NonOverrides(verifs', a, c)) >= 2
        /\ NonOverrides(verifs', a, c) # NonOverrides(verifs, a, c))
         => \E p \in AllProcs :
              /\ Completes(p)
              /\ call[p].op = "create_verification"
              /\ call[p].allow_duplicate
              /\ call[p].asset_id = a
              /\ call[p].cycle_id = c
              /\ res'[p].kind = "created"
              /\ NonOverrides(verifs', a, c)
                   = NonOverrides(verifs, a, c) \cup {res'[p].id}]_vars

\* a forced create_verification has given its pair a second row
C27_Witness ==
  \E p \in AllProcs :
    /\ pc[p] = "done"
    /\ call[p].op = "create_verification"
    /\ call[p].allow_duplicate
    /\ res[p].kind = "created"
    /\ Cardinality(NonOverrides(verifs, call[p].asset_id, call[p].cycle_id)) >= 2

\* ----------------------------------------------------------------------- C28
\* C28: create_verification first looks the cycle up and raises CycleNotFound
\* when it is missing and CycleLocked when it is LOCKED, whether or not the
\* asset exists; only then it looks the asset up and raises AssetNotFound when
\* it is missing; only then it looks for a row of the pair; and a call that
\* raises one of the three errors writes no row.
C28_ChecksInFixedOrder ==
  [][\A p \in AllProcs :
       (Steps(p) /\ call'[p].op = "create_verification")
         => /\ Starts(p)
                 => IF call'[p].cycle_id \notin DOMAIN cycles
                      THEN pc'[p] = "done" /\ res'[p].kind = "CycleNotFound"
                    ELSE IF cycles[call'[p].cycle_id].status = "LOCKED"
                      THEN pc'[p] = "done" /\ res'[p].kind = "CycleLocked"
                    ELSE pc'[p] = "cv_asset"
            /\ pc[p] = "cv_asset"
                 => IF call[p].asset_id \notin DOMAIN assets
                      THEN pc'[p] = "done" /\ res'[p].kind = "AssetNotFound"
                      ELSE pc'[p] = "cv_find"
            /\ (pc'[p] = "cv_insert" \/ res'[p].kind = "duplicate") => pc[p] = "cv_find"
            /\ res'[p].kind \in {"CycleNotFound", "CycleLocked", "AssetNotFound"}
                 => verifs' = verifs]_vars

\* a verification of a missing asset was refused on a writable cycle: the
\* lock check had passed, and no row was looked for
C28_Witness ==
  \E p \in AllProcs :
    /\ pc[p] = "done"
    /\ call[p].op = "create_verification"
    /\ res[p].kind = "AssetNotFound"
    /\ call[p].asset_id \notin DOMAIN assets
    /\ Writable(cycles, call[p].cycle_id)

\* ----------------------------------------------------------------------- C29
\* C29: override chains are one hop deep: no row's
\* override_of_verification_id is the id of a row that is itself an override.
C29_OverrideChainsAreOneHop ==
  \A i \in DOMAIN verifs :
    verifs[i].override_of_verification_id # Null
      => verifs[verifs[i].override_of_verification_id].override_of_verification_id = Null

\* ----------------------------------------------------------------------- C30
\* the asset ids get_pending_assets returns for the cycle
PendingIn(cy, as, vs, cycle_id) ==
  LET r == GetPendingAssets(cy, as, vs, cycle_id)
  IN {r.pending[k] : k \in DOMAIN r.pending}

\* C30: when an onboarding of asset_code in cycle C has succeeded,
\* lookup_asset_for_cycle(asset_code, C) returns the new asset with
\* already_verified = true and, as effective record, the initial verification
\* (source AUDITOR, status NEW_ASSET), and get_pending_assets(C) does not list
\* the asset; later on the lookup still answers already_verified = true and
\* the asset stays off the pending list of C.
C30_OnboardedAssetCountsAsVerified ==
  [][/\ \A p \in AllProcs :
          (/\ Completes(p)
           /\ call[p].op \in {"create_asset_and_initial_verification",
                               "create_new_asset_endpoint"}
           /\ res'[p].kind = "created")
            => LET l == LookupAssetForCycle(cycles', assets', verifs',
                                            call[p].asset_code, call[p].cycle_id)
               IN /\ l.kind = "ok"
                  /\ l.already_verified
                  /\ l.asset = Len(assets')
                  /\ assets'[l.asset].asset_code = call[p].asset_code
                  /\ l.id = res'[p].id
                  /\ verifs'[l.id].source = OnboardingSource
                  /\ verifs'[l.id].status = OnboardingStatus
                  /\ verifs'[l.id].asset_id = l.asset
                  /\ verifs'[l.id].cycle_id = call[p].cycle_id
                  /\ l.asset \notin PendingIn(cycles', assets', verifs', call[p].cycle_id)
     /\ \A i \in DOMAIN verifs' :
          verifs'[i].status = OnboardingStatus
            => LET a == verifs'[i].asset_id
                   c == verifs'[i].cycle_id
                   l == LookupAssetForCycle(cycles', assets', verifs',
                                            assets'[a].asset_code, c)
               IN /\ l.asset = a
                  /\ l.already_verified
                  /\ a \notin PendingIn(cycles', assets', verifs', c)]_vars

\* an onboarding has succeeded: the lookup reports its initial verification,
\* and the pending list of the cycle holds the seeded asset only
C30_Witness ==
  \E p \in AllProcs :
    /\ pc[p] = "done"
    /\ call[p].op = "create_asset_and_initial_verification"
    /\ res[p].kind = "created"
    /\ LookupAssetForCycle(cycles, assets, verifs, call[p].asset_code,
                           call[p].cycle_id).id = res[p].id
    /\ verifs[res[p].id].status = OnboardingStatus
    /\ PendingIn(cycles, assets, verifs, call[p].cycle_id) = DOMAIN SeedCodes

\* ----------------------------------------------------------------------- C31
\* C31: as long as no asset is added, the pending set of an existing cycle
\* only shrinks: the first verification created for a pending asset of the
\* cycle takes exactly that asset out of the cycle's pending set and leaves
\* the pending sets of the other cycles alone, and an override, a forced
\* duplicate, an attempt flagged as duplicate, a lock and an unlock leave
\* every pending set as it was.
C31_PendingOnlyShrinks ==
  [][assets' = assets
       => \A c \in DOMAIN cycles :
            LET before == PendingIn(cycles, assets, verifs, c)
                after == PendingIn(cycles', assets', verifs', c)
            IN /\ after \subseteq before
               /\ \A p \in AllProcs :
                    /\ (/\ Completes(p)
                        /\ call[p].op = "create_verification"
                        /\ res'[p].kind = "created"
                        /\ call[p].asset_id \in PendingIn(cycles, assets, verifs,
                                                          call[p].cycle_id))
                         => after = IF c = call[p].cycle_id
                                      THEN before \ {call[p].asset_id}
                                      ELSE before
                    /\ (/\ Completes(p)
                        /\ \/ call[p].op \in {"create_override", "lock_cycle",
                                               "unlock_cycle"}
                           \/ /\ call[p].op = "create_verification"
                              /\ VerificationsFor(verifs, call[p].asset_id,
                                                  call[p].cycle_id) # {})
                         => after = before]_vars

\* the first verification of the seeded asset in one cycle has taken it off
\* that cycle's pending list; it is still pending in the other cycle
C31_Witness ==
  \E p \in AllProcs, c \in DOMAIN cycles :
    /\ pc[p] = "done"
    /\ call[p].op = "create_verification"
    /\ res[p].kind = "created"
    /\ Cardinality(VerificationsFor(verifs, call[p].asset_id, call[p].cycle_id)) = 1
    /\ call[p].asset_id \notin PendingIn(cycles, assets, verifs, call[p].cycle_id)
    /\ c # call[p].cycle_id
    /\ call[p].asset_id \in PendingIn(cycles, assets, verifs, c)

\* ----------------------------------------------------------------------- C32
\* C32: get_active_cycle returns none exactly when no cycle is ACTIVE, and
\* otherwise an ACTIVE cycle that no other ACTIVE cycle is newer than, never a
\* DRAFT or LOCKED one; a cycle that has just been unlocked is not the one
\* returned while a cycle created after it is ACTIVE.
C32_ActiveCycleIsNewestActive ==
  [][LET r == GetActiveCycle(cycles')
         active == {c \in DOMAIN cycles' : cycles'[c].status = "ACTIVE"}
     IN /\ r.id = Null <=> active = {}
        /\ r.id # Null
             => /\ r.id \in active
                /\ \A c \in active : cycles'[c].created_at <= cycles'[r.id].created_at
        /\ \A p \in AllProcs :
             /\ (Completes(p) /\ call'[p].op = "get_active_cycle")
                  => res'[p] = GetActiveCycle(cycles)
             /\ (/\ Completes(p)
                 /\ call[p].op = "unlock_cycle"
                 /\ res'[p].kind = "ok"
                 /\ \E c \in active :
                      cycles'[c].created_at > cycles'[call[p].cycle_id].created_at)
                  => r.id # call[p].cycle_id]_vars

\* the older of two ACTIVE cycles has just been unlocked, and get_active_cycle
\* answers with the newer one
C32_Witness ==
  \E p \in AllProcs :
    /\ pc[p] = "done"
    /\ call[p].op = "unlock_cycle"
    /\ res[p].kind = "ok"
    /\ cycles[call[p].cycle_id].status = "ACTIVE"
    /\ GetActiveCycle(cycles).id # Null
    /\ GetActiveCycle(cycles).id # call[p].cycle_id
    /\ cycles[GetActiveCycle(cycles).id].status = "ACTIVE"

\* ----------------------------------------------------------------------- C33
\* C33: no step of a create_cycle, activate_cycle, lock_cycle or unlock_cycle
\* call changes a cycle other than the one it is called for, an asset or a
\* verification row; in particular no call locks or deactivates the cycles
\* that are ACTIVE, so several cycles can be ACTIVE together.
C33_LifecycleFrame ==
  [][\A p \in AllProcs :
       (/\ Steps(p)
        /\ \/ call[p].op \in {"create_cycle", "activate_cycle", "lock_cycle", "unlock_cycle"}
           \/ call'[p].op \in {"create_cycle", "activate_cycle", "lock_cycle", "unlock_cycle"})
         => /\ assets' = assets
            /\ verifs' = verifs
            /\ \A c \in DOMAIN cycles :
                 /\ c \in DOMAIN cycles'
                 /\ c \notin {call[p].cycle_id, call'[p].cycle_id}
                      => cycles'[c] = cycles[c]]_vars

\* a cycle has been created ACTIVE while an older cycle is ACTIVE: both are
\* ACTIVE now
C33_Witness ==
  \E p \in AllProcs :
    /\ pc[p] = "done"
    /\ call[p].op = "create_cycle"
    /\ res[p].kind = "ok"
    /\ cycles[res[p].id].status = "ACTIVE"
    /\ \E c \in DOMAIN cycles : c # res[p].id /\ cycles[c].status = "ACTIVE"

\* ----------------------------------------------------------------------- C34
\* C34: of two concurrent create_cycle calls with one tag that have both
\* passed the lookup of the tag, the first to commit creates the cycle and the
\* other fails with DuplicateTagError and creates nothing: one cycle has the
\* tag afterwards.
C34_LoserGetsDuplicateTag ==
  [][\A p \in AllProcs :
       (pc[p] = "cc_commit" /\ Completes(p))
         => /\ Cardinality(CyclesByTag(cycles', call[p].tag)) = 1
            /\ IF CyclesByTag(cycles, call[p].tag) = {}
                 THEN /\ res'[p].kind = "ok"
                      /\ Len(cycles') = Len(cycles) + 1
                 ELSE /\ res'[p].kind = "DuplicateTagError"
                      /\ cycles' = cycles]_vars

\* ----------------------------------------------------------------------- C35
\* C35: a verification row has a non-empty override_reason if and only if it
\* is an override (override_of_verification_id set).
C35_ReasonIffOverride ==
  \A i \in DOMAIN verifs :
    verifs[i].override_reason \notin {NullText, ""}
      <=> verifs[i].override_of_verification_id # Null

\* ----------------------------------------------------------------------- C36
\* C36: in every state in which a pair holds an override row, the effective
\* record get_asset_cycle_detail returns for the pair has source OVERRIDDEN
\* and is an override row, whatever rows were added after the override.
C36_OverrideStaysEffective ==
  \A a \in DOMAIN assets, c \in DOMAIN cycles :
    (\E i \in VerificationsFor(verifs, a, c) : verifs[i].override_of_verification_id # Null)
      => LET d == GetAssetCycleDetail(cycles, assets, verifs, a, c)
         IN /\ d.kind = "ok"
            /\ d.id # Null
            /\ verifs[d.id].source = "OVERRIDDEN"
            /\ verifs[d.id].override_of_verification_id # Null

\* ----------------------------------------------------------------------- C37
\* C37: for every active asset and every existing cycle, the asset is in
\* get_pending_assets(cycle) if and only if lookup_asset_for_cycle of its code
\* and the cycle answers already_verified = false.
C37_LookupAgreesWithPending ==
  \A a \in DOMAIN assets, c \in DOMAIN cycles :
    assets[a].is_active
      => LET l == LookupAssetForCycle(cycles, assets, verifs, assets[a].asset_code, c)
         IN /\ l.kind = "ok"
            /\ l.asset = a
            /\ a \in PendingIn(cycles, assets, verifs, c) <=> ~l.already_verified

\* a lookup has answered already_verified = false for an asset that is on the
\* pending list of the cycle, while another asset is verified in the cycle
\* and the first one is verified in another cycle
C37_Witness ==
  \E p \in AllProcs :
    /\ pc[p] = "done"
    /\ call[p].op = "lookup_asset_for_cycle"
    /\ res[p].kind = "ok"
    /\ res[p].asset # Null
    /\ ~res[p].already_verified
    /\ res[p].asset \in PendingIn(cycles, assets, verifs, call[p].cycle_id)
    /\ \E i \in DOMAIN verifs : /\ verifs[i].asset_id = res[p].asset
                                /\ verifs[i].cycle_id # call[p].cycle_id
    /\ \E b \in DOMAIN assets :
         /\ b # res[p].asset
         /\ b \notin PendingIn(cycles, assets, verifs, call[p].cycle_id)

\* ----------------------------------------------------------------------- C38
\* C38 as stated: through the endpoints every cycle is created ACTIVE and no
\* cycle is ever DRAFT, and every request to the activate endpoint is answered
\* 409 when the cycle exists and 404 when it does not.
C38_ActivateAlwaysAnswers409Or404 ==
  [][/\ \A c \in DOMAIN cycles' : cycles'[c].status # "DRAFT"
     /\ \A p \in ApiProcs :
          (Starts(p) /\ call'[p].op = "activate_cycle")
            => /\ pc'[p] = "done"
               /\ StatusCode(call'[p].op, res'[p].kind) =
                    IF call'[p].cycle_id \in DOMAIN cycles THEN HTTP_409_CONFLICT
                    ELSE HTTP_404_NOT_FOUND]_vars

\* C38 amended: through the endpoints every cycle is created ACTIVE and no
\* cycle is ever DRAFT, and no request to the activate endpoint succeeds or
\* changes a cycle: from an administrator it is answered 409 when the cycle
\* exists and 404 when it does not, and from any other user 403.
C38_ActivateNeverSucceeds ==
  [][/\ \A c \in DOMAIN cycles' : cycles'[c].status # "DRAFT"
     /\ \A c \in (DOMAIN cycles') \ (DOMAIN cycles) : cycles'[c].status = "ACTIVE"
     /\ \A p \in ApiProcs :
          (Starts(p) /\ call'[p].op = "activate_cycle")
            => /\ pc'[p] = "done"
               /\ res'[p].kind # "ok"
               /\ cycles' = cycles
               /\ StatusCode(call'[p].op, res'[p].kind) =
                    IF ~RequireAdmin(RoleOf(p)) THEN HTTP_403_FORBIDDEN
                    ELSE IF call'[p].cycle_id \in DOMAIN cycles THEN HTTP_409_CONFLICT
                    ELSE HTTP_404_NOT_FOUND]_vars

\* an administrator's activate request for an existing cycle was answered 409
C38_Witness ==
  \E p \in ApiProcs :
    /\ RoleOf(p) = "ADMIN"
    /\ pc[p] = "done"
    /\ call[p].op = "activate_cycle"
    /\ call[p].cycle_id \in DOMAIN cycles
    /\ cycles[call[p].cycle_id].status = "ACTIVE"
    /\ StatusCode(call[p].op, res[p].kind) = HTTP_409_CONFLICT

\* ----------------------------------------------------------------------- C39
\* C39: every verification row created by a request to the verification, the
\* override or the new-asset endpoint has the authenticated user of the
\* request as performed_by.
C39_PerformedByIsTheCaller ==
  [][\A p \in ApiProcs :
       (/\ Completes(p)
        /\ call[p].op \in {"create_verification", "create_override",
                            "create_new_asset_endpoint"})
         => \A i \in NewVerifications : verifs'[i].performed_by = UserName(p)]_vars

====
